---- MODULE Spec2Model ----
(***************************************************************************)
(* Model of backyard_flyer.py: the BackyardFlyer flight state machine.     *)
(*                                                                         *)
(* Lengths are integers in centimetres and speeds in centimetres per       *)
(* second, so the source's 3.0 m is 300, 1.0 m is 100, 0.1 is 10 and 0.05  *)
(* is 5; the source's 0.95 * target is compared as 100 * a > 95 * target.  *)
(* Vectors are 1-based: v[1], v[2], v[3] are the source's v[0], v[1],      *)
(* v[2].                                                                   *)
(***************************************************************************)
EXTENDS Integers, Sequences, FiniteSets

VARIABLES
    flight_state,      \* self.flight_state
    target_position,   \* self.target_position
    all_waypoints,     \* self.all_waypoints
    in_mission,        \* self.in_mission
    local_position,    \* self.local_position  (latest LOCAL_POSITION sample)
    local_velocity,    \* self.local_velocity  (latest LOCAL_VELOCITY sample)
    global_position,   \* self.global_position (latest GLOBAL_POSITION sample)
    global_home,       \* self.global_home     (latest GLOBAL_HOME sample)
    stopped,           \* TRUE once self.stop() has been called
    commands,          \* every command sent to the vehicle so far, in order
    emitted,           \* the commands sent by the latest event
    event,             \* the kind of the latest message delivered
    stateRun,          \* how many STATE events so far, -1 once a position or
                       \* velocity event has been delivered
    armed,             \* self.armed  (latest STATE sample)
    guided,            \* self.guided (latest STATE sample)
    calc_calls,        \* how many times calculate_box has been called
    plan,              \* planner harness: the flight plan handed to the planner
    box                \* planner harness: the planner's latest result

vars == <<flight_state, target_position, all_waypoints, in_mission,
          local_position, local_velocity, global_position, global_home,
          stopped, commands, emitted, event, stateRun, armed, guided,
          calc_calls, plan, box>>

session == <<flight_state, target_position, all_waypoints, in_mission>>

telemetry == <<local_position, local_velocity, global_position, global_home>>

flags == <<armed, guided>>

harness == <<plan, box>>

---------------------------------------------------------------------------
(* class States(Enum) *)
MANUAL == 0
ARMING == 1
TAKEOFF == 2
WAYPOINT == 3
LANDING == 4
DISARMING == 5

States == {MANUAL, ARMING, TAKEOFF, WAYPOINT, LANDING, DISARMING}

(* The thresholds of the callbacks, in centimetres (per second). *)
WaypointRadius == 100
LandingSpeed == 10
GlobalGroundMargin == 10
LocalGroundMargin == 5

(* Cap of the stateRun counter. *)
MaxStateRun == 3

---------------------------------------------------------------------------
(* Telemetry the vehicle link can deliver. *)

CornerSamples == {<<x, y, z>> : x \in {0, 2000}, y \in {0, 2000}, z \in {-300, -4}}

Positions ==
    CornerSamples \cup {<<2000, 100, -300>>, <<80, 80, -300>>, <<60, 60, -286>>,
                        <<0, 0, -285>>, <<0, 0, -5>>}

Velocities == {<<0, 0, 0>>, <<8, 8, 0>>, <<10, 0, 0>>}

(* GLOBAL_POSITION and GLOBAL_HOME samples, as pairs. *)
GlobalSamples ==
    {<< <<0, 0, 9>>, <<0, 0, 0>> >>, << <<0, 0, 10>>, <<0, 0, 0>> >>,
     << <<0, 0, 10>>, <<0, 0, 5>> >>}

GlobalPositions == {g[1] : g \in GlobalSamples}

GlobalHomes == {g[2] : g \in GlobalSamples}

(* STATE samples: <<armed, guided>>. *)
StateSamples == {<<FALSE, FALSE>>, <<FALSE, TRUE>>, <<TRUE, TRUE>>}

Abs(n) == IF n < 0 THEN -n ELSE n

(* np.linalg.norm(a[0:2] - b[0:2]) squared *)
PlanarDistSq(a, b) == (a[1] - b[1]) * (a[1] - b[1]) + (a[2] - b[2]) * (a[2] - b[2])

(* np.linalg.norm(v[0:2]) squared *)
PlanarNormSq(v) == v[1] * v[1] + v[2] * v[2]

---------------------------------------------------------------------------
(* The commands of the Drone base class, as sent to the vehicle. *)

TakeControl == <<"take_control">>
Arm == <<"arm">>
SetHomePosition(lon, lat, alt) == <<"set_home_position", lon, lat, alt>>
Takeoff(alt) == <<"takeoff", alt>>
CmdPosition(n, e, a, heading) == <<"cmd_position", n, e, a, heading>>
Land == <<"land">>
Disarm == <<"disarm">>
ReleaseControl == <<"release_control">>

---------------------------------------------------------------------------
(* flight_plan_coordinates: [x_start, x_end, y_start, y_end, altitude] *)
flight_plan_coordinates == <<0, 2000, 0, 2000, 300>>

(* The body of calculate_box on a destructured flight plan. *)
CalculateBoxReversed(p) ==
    << <<p[1], p[3], p[5]>>, <<p[1], p[4], p[5]>>,
       <<p[2], p[4], p[5]>>, <<p[2], p[3], p[5]>> >>

CalculateBoxOf(p) ==
    << <<p[2], p[3], p[5]>>, <<p[2], p[4], p[5]>>,
       <<p[1], p[4], p[5]>>, <<p[1], p[3], p[5]>> >>

calculate_box == CalculateBoxOf(flight_plan_coordinates)

---------------------------------------------------------------------------
(* The conditions of the callbacks. *)

(* -1 * self.local_position[2] > 0.95 * self.target_position[2] *)
TakeoffAltitudeReachedInclusive(lp, tp) == 100 * (-1 * lp[3]) >= 95 * tp[3]

TakeoffAltitudeReached(lp, tp) == 100 * (-1 * lp[3]) > 95 * tp[3]

(* np.linalg.norm(self.target_position[0:2] - self.local_position[0:2]) < 1.0 *)
WaypointReachedInclusive(tp, lp) ==
    PlanarDistSq(tp, lp) <= WaypointRadius * WaypointRadius

WaypointReached(tp, lp) == PlanarDistSq(tp, lp) < WaypointRadius * WaypointRadius

(* np.linalg.norm(self.local_velocity[0:2]) < 0.1 *)
StationaryInclusive(lv) == PlanarNormSq(lv) <= LandingSpeed * LandingSpeed

Stationary(lv) == PlanarNormSq(lv) < LandingSpeed * LandingSpeed

(* self.global_position[2] - self.global_home[2] < 0.1 *)
NearHomeAltitude(gp, gh) == gp[3] - gh[3] < GlobalGroundMargin

(* abs(self.local_position[2]) < 0.05 *)
OnGround(lp) == Abs(lp[3]) < LocalGroundMargin

---------------------------------------------------------------------------
(* The six transition procedures. Each sets the session, stopped and the   *)
(* commands it sends (emitted').                                           *)

arming_transition ==
    /\ emitted' = <<TakeControl, Arm,
                    SetHomePosition(global_position[1], global_position[2],
                                    global_position[3])>>
    /\ flight_state' = ARMING
    /\ UNCHANGED <<target_position, all_waypoints, in_mission, stopped>>

takeoff_transition_no_target ==
    /\ emitted' = <<Takeoff(flight_plan_coordinates[5])>>
    /\ flight_state' = TAKEOFF
    /\ UNCHANGED <<target_position, all_waypoints, in_mission, stopped>>

takeoff_transition ==
    /\ target_position' = [target_position EXCEPT ![3] = flight_plan_coordinates[5]]
    /\ emitted' = <<Takeoff(flight_plan_coordinates[5])>>
    /\ flight_state' = TAKEOFF
    /\ UNCHANGED <<all_waypoints, in_mission, stopped>>

waypoint_transition_no_pop(wps) ==
    /\ target_position' = Head(wps)
    /\ all_waypoints' = wps
    /\ emitted' = <<CmdPosition(Head(wps)[1], Head(wps)[2], Head(wps)[3], 0)>>
    /\ flight_state' = WAYPOINT
    /\ UNCHANGED <<in_mission, stopped>>

(* waypoint_transition on the waypoint list wps (self.all_waypoints at the call) *)
waypoint_transition(wps) ==
    /\ target_position' = Head(wps)
    /\ all_waypoints' = Tail(wps)
    /\ emitted' = <<CmdPosition(Head(wps)[1], Head(wps)[2], Head(wps)[3], 0)>>
    /\ flight_state' = WAYPOINT
    /\ UNCHANGED <<in_mission, stopped>>

landing_transition_wrong_state ==
    /\ emitted' = <<Land>>
    /\ flight_state' = DISARMING
    /\ UNCHANGED <<target_position, all_waypoints, in_mission, stopped>>

landing_transition ==
    /\ emitted' = <<Land>>
    /\ flight_state' = LANDING
    /\ UNCHANGED <<target_position, all_waypoints, in_mission, stopped>>

disarming_transition_reset_target ==
    /\ emitted' = <<Disarm>>
    /\ flight_state' = DISARMING
    /\ target_position' = <<0, 0, 0>>
    /\ UNCHANGED <<all_waypoints, in_mission, stopped>>

disarming_transition ==
    /\ emitted' = <<Disarm>>
    /\ flight_state' = DISARMING
    /\ UNCHANGED <<target_position, all_waypoints, in_mission, stopped>>

manual_transition_disarm_again ==
    /\ emitted' = <<Disarm, ReleaseControl>>
    /\ stopped' = TRUE
    /\ in_mission' = FALSE
    /\ flight_state' = MANUAL
    /\ UNCHANGED <<target_position, all_waypoints>>

manual_transition_stay_disarming ==
    /\ emitted' = <<ReleaseControl>>
    /\ stopped' = TRUE
    /\ in_mission' = FALSE
    /\ UNCHANGED <<flight_state, target_position, all_waypoints>>

manual_transition ==
    /\ emitted' = <<ReleaseControl>>
    /\ stopped' = TRUE
    /\ in_mission' = FALSE
    /\ flight_state' = MANUAL
    /\ UNCHANGED <<target_position, all_waypoints>>

(* A callback that falls through every branch. *)
NoTransition ==
    /\ emitted' = <<>>
    /\ UNCHANGED <<session, stopped>>

---------------------------------------------------------------------------
(* The three callbacks. Each reads the sample the link has just stored     *)
(* (the primed telemetry variable).                                        *)

(* calc_calls after a callback that did, or did not, call calculate_box. *)
CallsAfter(called) == calc_calls' = IF called THEN calc_calls + 1 ELSE calc_calls

local_position_callback_land_first ==
    /\ CallsAfter(flight_state = TAKEOFF
                  /\ TakeoffAltitudeReached(local_position', target_position))
    /\ IF flight_state = TAKEOFF
       THEN IF TakeoffAltitudeReached(local_position', target_position)
            THEN waypoint_transition(calculate_box)
            ELSE NoTransition
       ELSE IF flight_state = WAYPOINT
       THEN IF WaypointReached(target_position, local_position')
            THEN IF Stationary(local_velocity)
                 THEN landing_transition
                 ELSE IF Len(all_waypoints) > 0
                 THEN waypoint_transition(all_waypoints)
                 ELSE NoTransition
            ELSE NoTransition
       ELSE NoTransition

local_position_callback_regenerate ==
    /\ CallsAfter(flight_state \in {TAKEOFF, WAYPOINT}
                  /\ TakeoffAltitudeReached(local_position', target_position))
    /\ IF flight_state \in {TAKEOFF, WAYPOINT}
          /\ TakeoffAltitudeReached(local_position', target_position)
       THEN waypoint_transition(calculate_box)
       ELSE NoTransition

local_position_callback_fallthrough ==
    /\ CallsAfter(flight_state = TAKEOFF
                  /\ TakeoffAltitudeReached(local_position', target_position))
    /\ IF flight_state = TAKEOFF
       THEN IF TakeoffAltitudeReached(local_position', target_position)
            THEN IF WaypointReached(calculate_box[1], local_position')
                 THEN /\ target_position' = calculate_box[2]
                      /\ all_waypoints' = Tail(Tail(calculate_box))
                      /\ emitted' = <<CmdPosition(calculate_box[1][1], calculate_box[1][2],
                                                  calculate_box[1][3], 0),
                                      CmdPosition(calculate_box[2][1], calculate_box[2][2],
                                                  calculate_box[2][3], 0)>>
                      /\ flight_state' = WAYPOINT
                      /\ UNCHANGED <<in_mission, stopped>>
                 ELSE waypoint_transition(calculate_box)
            ELSE NoTransition
       ELSE IF flight_state = WAYPOINT
       THEN IF WaypointReached(target_position, local_position')
            THEN IF Len(all_waypoints) > 0
                 THEN waypoint_transition(all_waypoints)
                 ELSE IF Stationary(local_velocity)
                 THEN landing_transition
                 ELSE NoTransition
            ELSE NoTransition
       ELSE NoTransition

local_position_callback ==
    /\ CallsAfter(flight_state = TAKEOFF
                  /\ TakeoffAltitudeReached(local_position', target_position))
    /\ IF flight_state = TAKEOFF
       THEN IF TakeoffAltitudeReached(local_position', target_position)
            THEN waypoint_transition(calculate_box)
            ELSE NoTransition
       ELSE IF flight_state = WAYPOINT
       THEN IF WaypointReached(target_position, local_position')
            THEN IF Len(all_waypoints) > 0
                 THEN waypoint_transition(all_waypoints)
                 ELSE IF Stationary(local_velocity)
                 THEN landing_transition
                 ELSE NoTransition
            ELSE NoTransition
       ELSE NoTransition

velocity_callback_either ==
    IF flight_state = LANDING
    THEN IF NearHomeAltitude(global_position, global_home) \/ OnGround(local_position)
         THEN disarming_transition
         ELSE NoTransition
    ELSE NoTransition

velocity_callback_any_phase ==
    IF NearHomeAltitude(global_position, global_home)
    THEN IF OnGround(local_position)
         THEN disarming_transition
         ELSE NoTransition
    ELSE NoTransition

velocity_callback ==
    IF flight_state = LANDING
    THEN IF NearHomeAltitude(global_position, global_home)
         THEN IF OnGround(local_position)
              THEN disarming_transition
              ELSE NoTransition
         ELSE NoTransition
    ELSE NoTransition

state_callback_no_guard ==
    IF flight_state = MANUAL THEN arming_transition
    ELSE IF flight_state = ARMING THEN takeoff_transition
    ELSE IF flight_state = DISARMING THEN manual_transition
    ELSE NoTransition

state_callback_abort ==
    IF ~in_mission THEN NoTransition
    ELSE IF flight_state = MANUAL THEN arming_transition
    ELSE IF flight_state = ARMING THEN takeoff_transition
    ELSE IF flight_state = TAKEOFF THEN landing_transition
    ELSE IF flight_state = DISARMING THEN manual_transition
    ELSE NoTransition

state_callback_no_disarming_branch ==
    IF ~in_mission THEN NoTransition
    ELSE IF flight_state = MANUAL THEN arming_transition
    ELSE IF flight_state = ARMING THEN takeoff_transition
    ELSE NoTransition

state_callback_wait_armed ==
    IF ~in_mission THEN NoTransition
    ELSE IF flight_state = MANUAL THEN arming_transition
    ELSE IF flight_state = ARMING
    THEN IF armed' THEN takeoff_transition ELSE NoTransition
    ELSE IF flight_state = DISARMING
    THEN IF ~armed' THEN manual_transition ELSE NoTransition
    ELSE NoTransition

state_callback ==
    IF ~in_mission THEN NoTransition
    ELSE IF flight_state = MANUAL THEN arming_transition
    ELSE IF flight_state = ARMING THEN takeoff_transition
    ELSE IF flight_state = DISARMING THEN manual_transition
    ELSE NoTransition

---------------------------------------------------------------------------
(* Message delivery: the link stores the sample, then runs the callback    *)
(* registered for the message kind.                                        *)

LocalPositionEvent ==
    \E p \in Positions :
        /\ local_position' = p
        /\ event' = "LOCAL_POSITION"
        /\ local_position_callback
        /\ commands' = commands \o emitted'
        /\ stateRun' = -1
        /\ UNCHANGED <<local_velocity, global_position, global_home, flags, harness>>

LocalVelocityEvent ==
    \E v \in Velocities :
        /\ local_velocity' = v
        /\ event' = "LOCAL_VELOCITY"
        /\ velocity_callback
        /\ commands' = commands \o emitted'
        /\ stateRun' = -1
        /\ UNCHANGED <<local_position, global_position, global_home, flags,
                       calc_calls, harness>>

StateEvent ==
    \E f \in StateSamples :
        /\ armed' = f[1]
        /\ guided' = f[2]
        /\ event' = "STATE"
        /\ state_callback
        /\ commands' = commands \o emitted'
        /\ stateRun' = IF stateRun = -1 THEN -1
                       ELSE IF stateRun < MaxStateRun THEN stateRun + 1
                       ELSE stateRun
        /\ UNCHANGED <<telemetry, calc_calls, harness>>

(* GLOBAL_POSITION and GLOBAL_HOME messages: stored, no callback registered. *)
GlobalEvent ==
    \E g \in GlobalSamples :
        /\ global_position' = g[1]
        /\ global_home' = g[2]
        /\ event' = "GLOBAL"
        /\ emitted' = <<>>
        /\ UNCHANGED <<session, stopped, commands, stateRun,
                       local_position, local_velocity, flags, calc_calls, harness>>

(* BackyardFlyer.__init__ *)
Init ==
    /\ target_position = <<0, 0, 0>>
    /\ all_waypoints = <<>>
    /\ in_mission = TRUE
    /\ flight_state = MANUAL
    /\ local_position = <<0, 0, 0>>
    /\ local_velocity = <<0, 0, 0>>
    /\ global_position = <<0, 0, 9>>
    /\ global_home = <<0, 0, 0>>
    /\ stopped = FALSE
    /\ commands = <<>>
    /\ emitted = <<>>
    /\ event = "NONE"
    /\ stateRun = 0
    /\ armed = FALSE
    /\ guided = FALSE
    /\ calc_calls = 0
    /\ plan = flight_plan_coordinates
    /\ box = <<>>

Next ==
    \/ LocalPositionEvent
    \/ LocalVelocityEvent
    \/ StateEvent
    \/ GlobalEvent

Spec == Init /\ [][Next]_vars

---------------------------------------------------------------------------
(* Cooperative telemetry: the deliveries that move the mission on, and the *)
(* specification in which the link keeps making them.                      *)

(* A state event that is handled (Manual, Arming or Disarming in mission). *)
HandledStateEvent ==
    /\ in_mission
    /\ flight_state \in {MANUAL, ARMING, DISARMING}
    /\ StateEvent
    /\ flight_state' # flight_state

(* A position sample above 0.95 of the target altitude, in Takeoff. *)
ClimbReported == flight_state = TAKEOFF /\ LocalPositionEvent /\ flight_state' = WAYPOINT

(* A position sample within 1.0 of the commanded waypoint, more to come. *)
ArrivalReported ==
    flight_state = WAYPOINT /\ LocalPositionEvent /\ all_waypoints' # all_waypoints

(* A position sample within 1.0 of the last waypoint, the vehicle at rest. *)
ArrivalAtRestReported ==
    flight_state = WAYPOINT /\ LocalPositionEvent /\ flight_state' = LANDING

(* A velocity sample in Landing with both near-ground conditions true. *)
TouchdownReported ==
    flight_state = LANDING /\ LocalVelocityEvent /\ flight_state' = DISARMING

(* The speed drops below 0.1 again and again while the last waypoint is    *)
(* the target.                                                             *)
AtRestAtLastWaypoint ==
    (flight_state = WAYPOINT /\ all_waypoints = <<>>) => Stationary(local_velocity)

OnGroundInLanding ==
    flight_state = LANDING =>
        NearHomeAltitude(global_position, global_home) /\ OnGround(local_position)

(* Again and again the speed is below 0.1 while the last waypoint is the   *)
(* target, and both near-ground conditions hold while in Landing.          *)
TelemetrySettles == []<>(AtRestAtLastWaypoint /\ OnGroundInLanding)

(* The deliveries that are possible in every state of their phase. *)
AlwaysPossible == HandledStateEvent \/ ClimbReported \/ ArrivalReported

(* The deliveries that are possible only while the telemetry has settled. *)
PossibleWhenSettled == ArrivalAtRestReported \/ TouchdownReported

SpecLive ==
    /\ Init
    /\ [][Next]_vars
    /\ WF_vars(AlwaysPossible)
    /\ SF_vars(PossibleWhenSettled)
    /\ TelemetrySettles

---------------------------------------------------------------------------
(* Planner harness: calculate_box applied to flight plans other than the   *)
(* one flight_plan_coordinates returns.                                    *)

PlanCoords == {0, 1000, 2000}

PlanAltitudes == {-100, 0, 300}

Plans == {<<xs, xe, ys, ye, a>> : xs \in PlanCoords, xe \in PlanCoords,
                                  ys \in PlanCoords, ye \in PlanCoords,
                                  a \in PlanAltitudes}

BoxInit ==
    /\ target_position = <<0, 0, 0>>
    /\ all_waypoints = <<>>
    /\ in_mission = TRUE
    /\ flight_state = MANUAL
    /\ local_position = <<0, 0, 0>>
    /\ local_velocity = <<0, 0, 0>>
    /\ global_position = <<0, 0, 9>>
    /\ global_home = <<0, 0, 0>>
    /\ stopped = FALSE
    /\ commands = <<>>
    /\ emitted = <<>>
    /\ event = "NONE"
    /\ stateRun = 0
    /\ armed = FALSE
    /\ guided = FALSE
    /\ calc_calls = 0
    /\ plan \in Plans
    /\ box = <<>>

GenerateBox ==
    /\ box = <<>>
    /\ box' = CalculateBoxOf(plan)
    /\ UNCHANGED <<session, telemetry, stopped, commands, emitted, event,
                   stateRun, flags, calc_calls, plan>>

NewPlan ==
    /\ box # <<>>
    /\ plan' \in Plans
    /\ box' = <<>>
    /\ UNCHANGED <<session, telemetry, stopped, commands, emitted, event,
                   stateRun, flags, calc_calls>>

BoxNext == GenerateBox \/ NewPlan

SpecBox == BoxInit /\ [][BoxNext]_vars

---------------------------------------------------------------------------
(* Properties.                                                             *)

(* The flight plan's fields, as the properties name them. *)
XStart == flight_plan_coordinates[1]
XEnd == flight_plan_coordinates[2]
YStart == flight_plan_coordinates[3]
YEnd == flight_plan_coordinates[4]
PlanAltitude == flight_plan_coordinates[5]

IsPrefix(s, t) == Len(s) <= Len(t) /\ \A i \in 1..Len(s) : s[i] = t[i]

PhaseEdges ==
    {<<MANUAL, ARMING>>, <<ARMING, TAKEOFF>>, <<TAKEOFF, WAYPOINT>>,
     <<WAYPOINT, LANDING>>, <<LANDING, DISARMING>>, <<DISARMING, MANUAL>>}

(* C1: every change of flight_state, by whatever event, is one of the six  *)
(* edges Manual->Arming, Arming->Takeoff, Takeoff->Waypoint,               *)
(* Waypoint->Landing, Landing->Disarming, Disarming->Manual.               *)
C1_SixEdges ==
    [][flight_state' # flight_state => <<flight_state, flight_state'>> \in PhaseEdges]_vars

(* The whole cycle but its last edge has been walked. *)
C1_Witness == flight_state = DISARMING /\ Len(commands) = 10

(* The scripted command sequence of one mission; home is the set-home      *)
(* command, whose arguments are the global position at arming time.        *)
Script(home) ==
    <<TakeControl, Arm, home, Takeoff(PlanAltitude),
      CmdPosition(XEnd, YStart, PlanAltitude, 0),
      CmdPosition(XEnd, YEnd, PlanAltitude, 0),
      CmdPosition(XStart, YEnd, PlanAltitude, 0),
      CmdPosition(XStart, YStart, PlanAltitude, 0),
      Land, Disarm, ReleaseControl>>

(* C2: the commands sent so far are always a prefix of the script          *)
(* take-control, arm, set-home, takeoff, four fly-to in corner order,      *)
(* land, disarm, release-control.                                          *)
C2_CommandsPrefixOfScript ==
    \E g \in GlobalPositions :
        IsPrefix(commands, Script(SetHomePosition(g[1], g[2], g[3])))

(* The whole script has been sent. *)
C2_Witness == Len(commands) = 11 /\ commands[11] = ReleaseControl

(* C3: in Takeoff a position event with altitude above 0.95 of the target  *)
(* altitude moves to Waypoint, targets the first corner, leaves the other  *)
(* three queued and sends one fly-to; at or below 0.95 it changes nothing  *)
(* and sends nothing.                                                      *)
C3_TakeoffToWaypoint ==
    [][(flight_state = TAKEOFF /\ event' = "LOCAL_POSITION") =>
          IF 100 * (-local_position'[3]) > 95 * target_position[3]
          THEN /\ flight_state' = WAYPOINT
               /\ target_position' = <<XEnd, YStart, PlanAltitude>>
               /\ all_waypoints' = << <<XEnd, YEnd, PlanAltitude>>,
                                      <<XStart, YEnd, PlanAltitude>>,
                                      <<XStart, YStart, PlanAltitude>> >>
               /\ emitted' = <<CmdPosition(XEnd, YStart, PlanAltitude, 0)>>
          ELSE /\ UNCHANGED <<flight_state, target_position, all_waypoints>>
               /\ emitted' = <<>>]_vars

(* The transition was taken by a sample just above the threshold. *)
C3_Witness ==
    /\ flight_state = WAYPOINT
    /\ Len(all_waypoints) = 3
    /\ event = "LOCAL_POSITION"
    /\ local_position[3] = -286
    /\ Len(emitted) = 1

(* C4: in Waypoint with waypoints left, a position event closer than 1.0   *)
(* (horizontally) to the target pops the head of the queue as the new      *)
(* target, sends one fly-to for it and stays in Waypoint, whatever the     *)
(* altitude and velocity; at 1.0 or more it changes and sends nothing.     *)
C4_PopNextWaypoint ==
    [][(flight_state = WAYPOINT /\ Len(all_waypoints) > 0 /\ event' = "LOCAL_POSITION") =>
          IF PlanarDistSq(target_position, local_position') < 100 * 100
          THEN /\ flight_state' = WAYPOINT
               /\ target_position' = Head(all_waypoints)
               /\ all_waypoints' = Tail(all_waypoints)
               /\ emitted' = <<CmdPosition(Head(all_waypoints)[1], Head(all_waypoints)[2],
                                           Head(all_waypoints)[3], 0)>>
          ELSE /\ UNCHANGED <<flight_state, target_position, all_waypoints>>
               /\ emitted' = <<>>]_vars

(* A waypoint was popped by a sample far below cruise altitude while the   *)
(* vehicle was still moving.                                               *)
C4_Witness ==
    /\ flight_state = WAYPOINT
    /\ Len(all_waypoints) = 2
    /\ event = "LOCAL_POSITION"
    /\ Len(emitted) = 1
    /\ local_position[3] = -4
    /\ local_velocity = <<8, 8, 0>>

(* C5: in Waypoint with the queue empty, a position event closer than 1.0  *)
(* to the target lands (phase Landing, one land command) when the          *)
(* horizontal speed is below 0.1, and otherwise changes and sends nothing. *)
C5_LandOnlyWhenStationary ==
    [][(/\ flight_state = WAYPOINT
        /\ Len(all_waypoints) = 0
        /\ event' = "LOCAL_POSITION"
        /\ PlanarDistSq(target_position, local_position') < 100 * 100) =>
          IF PlanarNormSq(local_velocity') < 10 * 10
          THEN /\ flight_state' = LANDING
               /\ emitted' = <<Land>>
               /\ UNCHANGED <<target_position, all_waypoints>>
          ELSE /\ UNCHANGED <<flight_state, target_position, all_waypoints>>
               /\ emitted' = <<>>]_vars

(* The last waypoint was reached while moving, nothing happened, and it is *)
(* still the target.                                                       *)
C5_Witness ==
    /\ flight_state = WAYPOINT
    /\ Len(all_waypoints) = 0
    /\ event = "LOCAL_POSITION"
    /\ PlanarDistSq(target_position, local_position) < 100 * 100
    /\ local_velocity = <<10, 0, 0>>
    /\ emitted = <<>>

(* C6: in Landing a velocity event moves to Disarming and sends disarm     *)
(* exactly when, at that event, the global altitude is less than 0.1 above *)
(* home and the local vertical position is within 0.05 of zero; otherwise  *)
(* the phase stays Landing and nothing is sent.                            *)
C6_DisarmIffBothNearGround ==
    [][(flight_state = LANDING /\ event' = "LOCAL_VELOCITY") =>
          IF /\ global_position'[3] - global_home'[3] < 10
             /\ Abs(local_position'[3]) < 5
          THEN flight_state' = DISARMING /\ emitted' = <<Disarm>>
          ELSE flight_state' = LANDING /\ emitted' = <<>>]_vars

(* Disarm was sent by a velocity event with both checks passing, the home  *)
(* altitude being what brings the first one under its threshold.           *)
C6_Witness ==
    /\ flight_state = DISARMING
    /\ event = "LOCAL_VELOCITY"
    /\ emitted = <<Disarm>>
    /\ global_position[3] = 10
    /\ global_home[3] = 5

Mentions(cmds, c) == \E i \in 1..Len(cmds) : cmds[i] = c

(* C7: a state event in Disarming ends the mission (in_mission false,      *)
(* phase Manual, release-control sent); from then on in_mission stays      *)
(* false, the phase stays Manual, no arm or take-control is sent again,    *)
(* and every state event changes and sends nothing.                        *)
C7_MissionNeverRestarts ==
    [][/\ (flight_state = DISARMING /\ event' = "STATE") =>
              /\ in_mission' = FALSE
              /\ flight_state' = MANUAL
              /\ emitted' = <<ReleaseControl>>
       /\ ~in_mission =>
              /\ in_mission' = FALSE
              /\ flight_state' = MANUAL
              /\ ~Mentions(emitted', Arm)
              /\ ~Mentions(emitted', TakeControl)
       /\ (~in_mission /\ event' = "STATE") =>
              /\ UNCHANGED session
              /\ emitted' = <<>>]_vars

(* A state event was delivered after the mission had ended. *)
C7_Witness ==
    /\ ~in_mission
    /\ event = "STATE"
    /\ emitted = <<>>
    /\ Len(commands) = 11

(* C8: from the initial session, with only state events delivered, the     *)
(* first one arms (take-control, arm, set-home; phase Arming), the second  *)
(* sets the target altitude to the plan's and sends takeoff (phase         *)
(* Takeoff), the third and later ones change and send nothing.             *)
C8_ThreeStateEvents ==
    /\ stateRun = 0 => flight_state = MANUAL /\ commands = <<>>
    /\ stateRun = 1 =>
          /\ flight_state = ARMING
          /\ target_position = <<0, 0, 0>>
          /\ \E g \in GlobalPositions :
                commands = <<TakeControl, Arm, SetHomePosition(g[1], g[2], g[3])>>
          /\ event = "STATE" => emitted = commands
    /\ stateRun = 2 =>
          /\ flight_state = TAKEOFF
          /\ target_position = <<0, 0, PlanAltitude>>
          /\ Len(commands) = 4
          /\ commands[4] = Takeoff(PlanAltitude)
          /\ event = "STATE" => emitted = <<Takeoff(PlanAltitude)>>
    /\ stateRun >= 3 =>
          /\ flight_state = TAKEOFF
          /\ target_position = <<0, 0, PlanAltitude>>
          /\ Len(commands) = 4
          /\ commands[4] = Takeoff(PlanAltitude)
          /\ emitted = <<>>
    /\ stateRun >= 0 => in_mission /\ all_waypoints = <<>>

(* The third state event in a row has been delivered. *)
C8_Witness == stateRun = 3 /\ event = "STATE"

(* The corners of the plan's rectangle, at the plan's altitude. *)
PlanCorners(p) == {<<x, y, p[5]>> : x \in {p[1], p[2]}, y \in {p[3], p[4]}}

Occurrences(seq, e) == Cardinality({i \in 1..Len(seq) : seq[i] = e})

(* C9: calculate_box returns exactly 4 waypoints, all at the plan's        *)
(* altitude, in the order (x_end,y_start), (x_end,y_end), (x_start,y_end), *)
(* (x_start,y_start); its waypoints are the corners of the rectangle, each *)
(* once when the rectangle has four distinct corners; the plan             *)
(* {0,20,0,20,3.0} gives [(20,0,3),(20,20,3),(0,20,3),(0,0,3)].            *)
C9_BoxOrder ==
    box # <<>> =>
        /\ Len(box) = 4
        /\ \A i \in 1..4 : box[i][3] = plan[5]
        /\ box[1] = <<plan[2], plan[3], plan[5]>>
        /\ box[2] = <<plan[2], plan[4], plan[5]>>
        /\ box[3] = <<plan[1], plan[4], plan[5]>>
        /\ box[4] = <<plan[1], plan[3], plan[5]>>
        /\ {box[i] : i \in 1..4} = PlanCorners(plan)
        /\ (plan[1] # plan[2] /\ plan[3] # plan[4]) =>
              \A c \in PlanCorners(plan) : Occurrences(box, c) = 1
        /\ plan = <<0, 2000, 0, 2000, 300>> =>
              box = << <<2000, 0, 300>>, <<2000, 2000, 300>>,
                       <<0, 2000, 300>>, <<0, 0, 300>> >>

(* The planner has run on the plan of flight_plan_coordinates. *)
C9_Witness == box # <<>> /\ plan = <<0, 2000, 0, 2000, 300>>

(* C10 as stated: every event sends at most one command. *)
C10_AtMostOneCommand == Len(emitted) <= 1

(* C10, amended: every event sends at most one command, except the state   *)
(* event handled in Manual during the mission, which sends exactly three:  *)
(* take-control, arm and set-home.                                         *)
C10_AtMostOneExceptArming ==
    [][IF event' = "STATE" /\ flight_state = MANUAL /\ in_mission
       THEN /\ Len(emitted') = 3
            /\ emitted'[1] = TakeControl
            /\ emitted'[2] = Arm
            /\ emitted'[3] = SetHomePosition(global_position[1], global_position[2],
                                             global_position[3])
       ELSE Len(emitted') <= 1]_vars

(* The arming event has sent its three commands. *)
C10_Witness == Len(emitted) = 3 /\ flight_state = ARMING /\ event = "STATE"

(* C11: an event that does not match the phase is ignored: a position      *)
(* event in Manual, Arming, Landing or Disarming, a velocity event outside *)
(* Landing, and a state event in Takeoff, Waypoint or Landing leave phase, *)
(* target, queue and in_mission unchanged and send nothing.                *)
C11_UnmatchedEventsIgnored ==
    [][(\/ event' = "LOCAL_POSITION" /\ flight_state \in {MANUAL, ARMING, LANDING, DISARMING}
        \/ event' = "LOCAL_VELOCITY" /\ flight_state # LANDING
        \/ event' = "STATE" /\ flight_state \in {TAKEOFF, WAYPOINT, LANDING}) =>
          /\ UNCHANGED <<flight_state, target_position, all_waypoints, in_mission>>
          /\ emitted' = <<>>
          /\ commands' = commands]_vars

(* A velocity event was ignored in Waypoint although both near-ground      *)
(* checks would have passed.                                               *)
C11_Witness ==
    /\ flight_state = WAYPOINT
    /\ event = "LOCAL_VELOCITY"
    /\ emitted = <<>>
    /\ global_position[3] - global_home[3] < 10
    /\ Abs(local_position[3]) < 5

(* C12: calculate_box is called at most once, and only by a position       *)
(* event that finds the phase Takeoff and the altitude above 0.95 of the   *)
(* target altitude; never in any other phase.                              *)
C12_BoxGeneratedOnce ==
    /\ [](calc_calls <= 1)
    /\ [][calc_calls' # calc_calls =>
             /\ calc_calls' = calc_calls + 1
             /\ flight_state = TAKEOFF
             /\ event' = "LOCAL_POSITION"
             /\ 100 * (-local_position'[3]) > 95 * target_position[3]]_vars

(* In Waypoint, after the queue was generated, a position sample above     *)
(* 0.95 of the target altitude arrived and nothing was regenerated.        *)
C12_Witness ==
    /\ flight_state = WAYPOINT
    /\ calc_calls = 1
    /\ event = "LOCAL_POSITION"
    /\ local_position = <<60, 60, -286>>
    /\ Len(all_waypoints) = 2
    /\ emitted = <<>>

C14_NoTimeout ==
    [][/\ (/\ flight_state = TAKEOFF
           /\ ~(/\ event' = "LOCAL_POSITION"
                /\ 100 * (-local_position'[3]) > 95 * target_position[3])) =>
              flight_state' = TAKEOFF
       /\ (flight_state = ARMING /\ event' # "STATE") =>
              flight_state' = ARMING]_vars

(* A state event arrived in Takeoff after position and velocity events     *)
(* had, with the altitude exactly at 0.95 of the target: still Takeoff.    *)
C14_Witness ==
    /\ flight_state = TAKEOFF
    /\ event = "STATE"
    /\ stateRun = -1
    /\ local_position[3] = -285
    /\ local_velocity # <<0, 0, 0>>

(* C15: target_position changes only in the Arming->Takeoff transition,    *)
(* which sets its altitude to the plan's, and when a waypoint is popped    *)
(* (Takeoff->Waypoint, Waypoint->Waypoint), which replaces it by that      *)
(* waypoint; every other event leaves it unchanged.                        *)
C15_TargetChangedOnlyByTransitions ==
    [][target_position' # target_position =>
          \/ /\ flight_state = ARMING
             /\ flight_state' = TAKEOFF
             /\ event' = "STATE"
             /\ target_position' = <<target_position[1], target_position[2], PlanAltitude>>
          \/ /\ flight_state \in {TAKEOFF, WAYPOINT}
             /\ flight_state' = WAYPOINT
             /\ event' = "LOCAL_POSITION"
             /\ emitted' = <<CmdPosition(target_position'[1], target_position'[2],
                                         target_position'[3], 0)>>
             /\ \/ flight_state = WAYPOINT /\ all_waypoints = <<target_position'>> \o all_waypoints'
                \/ flight_state = TAKEOFF /\ Len(all_waypoints') = 3]_vars

(* The mission is over and the target is still the last waypoint popped. *)
C15_Witness ==
    /\ flight_state = MANUAL
    /\ ~in_mission
    /\ target_position = <<XStart, YStart, PlanAltitude>>

(* C16: with cooperative telemetry (state events keep being handled, the   *)
(* climb and every arrival are eventually reported, the speed settles at   *)
(* the last waypoint and the ground is reached during Landing) the machine *)
(* eventually is in Manual with in_mission false.                          *)
C16_MissionCompletes == <>(flight_state = MANUAL /\ ~in_mission)

(* The mission is complete: every command of the script has been sent. *)
C16_Witness == flight_state = MANUAL /\ ~in_mission /\ stopped /\ calc_calls = 1

(* The four waypoints of the plan, in visiting order. *)
Itinerary ==
    << <<XEnd, YStart, PlanAltitude>>, <<XEnd, YEnd, PlanAltitude>>,
       <<XStart, YEnd, PlanAltitude>>, <<XStart, YStart, PlanAltitude>> >>

(* C17: the queue is empty in Manual, Arming, Takeoff, Landing and         *)
(* Disarming; in Waypoint it has 0 to 3 elements and is the part of the    *)
(* itinerary after the current target; once the itinerary is done the      *)
(* target is its last waypoint.                                            *)
C17_QueueTiedToPhase ==
    /\ flight_state \in {MANUAL, ARMING, TAKEOFF, LANDING, DISARMING} => all_waypoints = <<>>
    /\ flight_state = WAYPOINT =>
          /\ Len(all_waypoints) \in 0..3
          /\ \E k \in 1..4 : /\ target_position = Itinerary[k]
                             /\ all_waypoints = SubSeq(Itinerary, k + 1, 4)
    /\ (flight_state \in {LANDING, DISARMING} \/ ~in_mission) =>
          target_position = Itinerary[4]

(* In Waypoint with the third waypoint as target and one left. *)
C17_Witness ==
    /\ flight_state = WAYPOINT
    /\ target_position = <<XStart, YEnd, PlanAltitude>>
    /\ all_waypoints = << <<XStart, YStart, PlanAltitude>> >>

(* C18: in_mission false implies phase Manual, and once in_mission is      *)
(* false no position, velocity or state event changes phase, target, queue *)
(* or in_mission or sends a command.                                       *)
C18_AbsorbingAfterMission ==
    /\ [](~in_mission => flight_state = MANUAL)
    /\ [][~in_mission =>
             /\ UNCHANGED <<flight_state, target_position, all_waypoints, in_mission>>
             /\ emitted' = <<>>
             /\ commands' = commands]_vars

(* After the mission a position sample near the target, at takeoff height, *)
(* was delivered and ignored.                                              *)
C18_Witness ==
    /\ ~in_mission
    /\ event = "LOCAL_POSITION"
    /\ local_position = <<0, 0, -300>>
    /\ emitted = <<>>

(* How far along the flight the session is, from Takeoff to Landing. *)
Stage ==
    IF flight_state = TAKEOFF THEN 0
    ELSE IF flight_state = WAYPOINT THEN 4 - Len(all_waypoints)
    ELSE 5

(* C19: one event makes at most one phase transition and pops at most one  *)
(* waypoint. From Takeoff to Landing every event advances the flight by    *)
(* at most one stage (Takeoff, four targets, Landing), only position       *)
(* events advance it, and each sends at most one command: so Landing is    *)
(* at least five position events after Takeoff.                            *)
C19_OneStagePerEvent ==
    [][/\ flight_state' # flight_state => <<flight_state, flight_state'>> \in PhaseEdges
       /\ flight_state \in {TAKEOFF, WAYPOINT} =>
             /\ Stage' \in {Stage, Stage + 1}
             /\ Stage' # Stage => event' = "LOCAL_POSITION" /\ Len(emitted') = 1
       /\ flight_state = WAYPOINT => Len(all_waypoints) - Len(all_waypoints') \in {0, 1}
       /\ flight_state = TAKEOFF /\ flight_state' = WAYPOINT =>
             /\ target_position' = Itinerary[1]
             /\ Len(all_waypoints') = 3]_vars

(* Takeoff was left by a sample that is also within 1.0 of the first       *)
(* waypoint: that waypoint is the target and three are left.               *)
C19_Witness ==
    /\ flight_state = WAYPOINT
    /\ event = "LOCAL_POSITION"
    /\ local_position = <<XEnd, YStart, -300>>
    /\ target_position = Itinerary[1]
    /\ Len(all_waypoints) = 3
    /\ Len(emitted) = 1

(* C20: what a state event does is fixed by the session before it (and,    *)
(* for set-home, the global position), whatever armed and guided values    *)
(* it carries: arming in Manual, takeoff in Arming, release in Disarming,  *)
(* nothing otherwise. Two runs that differ only in those values therefore  *)
(* go through the same phases and send the same commands.                  *)
C20_FlagsIgnored ==
    [][event' = "STATE" =>
          IF in_mission /\ flight_state = MANUAL
          THEN /\ flight_state' = ARMING
               /\ emitted' = <<TakeControl, Arm,
                               SetHomePosition(global_position[1], global_position[2],
                                               global_position[3])>>
               /\ UNCHANGED <<target_position, all_waypoints, in_mission>>
          ELSE IF in_mission /\ flight_state = ARMING
          THEN /\ flight_state' = TAKEOFF
               /\ emitted' = <<Takeoff(PlanAltitude)>>
               /\ target_position' = <<target_position[1], target_position[2], PlanAltitude>>
               /\ UNCHANGED <<all_waypoints, in_mission>>
          ELSE IF in_mission /\ flight_state = DISARMING
          THEN /\ flight_state' = MANUAL
               /\ emitted' = <<ReleaseControl>>
               /\ in_mission' = FALSE
               /\ UNCHANGED <<target_position, all_waypoints>>
          ELSE /\ UNCHANGED <<flight_state, target_position, all_waypoints, in_mission>>
               /\ emitted' = <<>>]_vars

(* Takeoff was commanded by a state event that reported the vehicle not    *)
(* armed.                                                                  *)
C20_Witness ==
    /\ flight_state = TAKEOFF
    /\ event = "STATE"
    /\ emitted = <<Takeoff(PlanAltitude)>>
    /\ armed = FALSE

====
